---- MODULE Spec2Model ----
(***************************************************************************)
(* A model of the fractal-flame sampler of vildar/fractalflames.           *)
(*                                                                         *)
(* Three source variants are modelled side by side:                        *)
(*   "serial"  src/src/bin/serial.rs   single process, variation sequence  *)
(*   "main"    src/src/main.rs         single process, one variation       *)
(*   "mpi"     src/src/main1.rs        MPI workers, rayon histogram        *)
(*                                                                         *)
(* Numbers.  Orbit coordinates and affine coefficients are f64 values that *)
(* the model draws from small dyadic sets; they are held as integers in    *)
(* half units (the integer n stands for n/2), on which the f64 operations  *)
(* used (+, -, * by -1, 0, 1) are exact.  Colours are f64 values held in a *)
(* bit-exact binary64 representation (see the section on colours).         *)
(***************************************************************************)
EXTENDS Integers, Sequences, FiniteSets, TLC

VARIABLES
    \* ---- the IFS and one call of chaos_game
    variant,      \* which source variant runs
    transforms,   \* IFS.transforms
    iterations,   \* argument of chaos_game
    rank,         \* argument of chaos_game (0 in the single-process variants)
    size,         \* argument of chaos_game (1 in the single-process variants)
    pc,           \* position inside main / chaos_game
    x, y,         \* the current point
    i,            \* the loop variable of chaos_game
    points,       \* the Vec being built and returned by chaos_game
    applied,      \* history: applied[k] is the number of transforms this
                  \* call had applied when it pushed points[k]
    \* ---- one call of transform_to_pixels
    pixPc,        \* position inside transform_to_pixels
    orbit,        \* its argument `points`
    width,        \* its argument `width`
    height,       \* its argument `height`
    extrema,      \* min_x, max_x, min_y, max_y
    norms,        \* history: the quotients (x - min_x) / (max_x - min_x) and
                  \* (y - min_y) / (max_y - min_y) computed for each point
    pixel_points, \* the Vec it collects and returns
    \* ---- one call of create_histogram
    histPc,       \* position inside create_histogram
    c,            \* the reference colour of the sequential versions
    pos,          \* how many elements the sequential loop has consumed
    parts,        \* rayon: the slices of the input and their partial maps
                  \* (joins: history, the reductions that made a result)
    histogram,    \* the HashMap being built and returned
    \* ---- the exchange and merge of main1.rs, per MPI process
    wpc,              \* position of each process inside main
    local_histogram,  \* its local_histogram
    serialized,       \* its serialized_local_histogram
    sizes,            \* its `sizes` after the first all_gather_into
    gathered,         \* its serialized_global_histogram
    global_histogram, \* its global_histogram
    calls,            \* how many of the two collectives it has entered
    \* ---- one call of AffineTransform::apply of serial.rs
    apPc,             \* position inside apply
    self,             \* the transform: coefficients and variations
    vx,               \* x
    vy,               \* y
    vr,               \* r
    vpos              \* how many variations of the list have been applied

chaosVars == <<variant, transforms, iterations, rank, size, pc, x, y, i,
               points, applied>>

pixVars == <<pixPc, orbit, width, height, extrema, norms, pixel_points>>

histVars == <<histPc, c, pos, parts, histogram>>

mergeVars == <<wpc, local_histogram, serialized, sizes, gathered,
               global_histogram, calls>>

applyVars == <<apPc, self, vx, vy, vr, vpos>>

vars == <<chaosVars, pixVars, histVars, mergeVars, applyVars>>

\* what a call of chaos_game leaves alone
notChaos == <<pixVars, histVars, mergeVars, applyVars>>

\* what a call of transform_to_pixels leaves alone
notPix == <<chaosVars, histVars, mergeVars, applyVars>>

\* what a call of create_histogram leaves alone
notHist == <<chaosVars, pixVars, mergeVars, applyVars>>

\* what the exchange and merge leave alone
notMerge == <<chaosVars, pixVars, histVars, applyVars>>

\* what a call of apply leaves alone
notApply == <<chaosVars, pixVars, histVars, mergeVars>>

(***************************************************************************)
(* Bounds of the model.                                                    *)
(***************************************************************************)
\* iterations explored past the warm-up, per worker
MaxExtra == 2
\* largest MPI group
MaxSize == 2
\* longest orbit handed to transform_to_pixels on its own
MaxPts == 2
\* longest input handed to create_histogram on its own
MaxLen == 3

(***************************************************************************)
(* Program constants.                                                      *)
(***************************************************************************)
\* `if i >= 20` in chaos_game
WARMUP == 20

Variants == {"serial", "main", "mpi"}

(***************************************************************************)
(* Colours.  A colour component is a non-negative f64, held bit-exactly:   *)
(* [h, l, e] stands for (h * 2^27 + l) * 2^e, the 53-bit significand split *)
(* in two limbs, with e >= -1074 and the significand >= 2^52 unless        *)
(* e = -1074 (zero and the subnormal numbers).  F64Add and F64Half round   *)
(* to nearest, ties to even, as the hardware does.                         *)
(***************************************************************************)
\* the limb base 2^27, the least exponent, and 2^26 (a significand of 2^53)
Limb == 134217728

EMin == -1074

Top == 67108864

WNorm(h, l) == <<h + l \div Limb, l % Limb>>

WAdd(m, n) == WNorm(m[1] + n[1], m[2] + n[2])

WInc(m) == WNorm(m[1], m[2] + 1)

\* m shifted right by d bits
WShr(m, d) ==
    IF d <= 0 THEN m
    ELSE IF d < 27
         THEN <<m[1] \div 2^d, (m[1] % 2^d) * 2^(27 - d) + m[2] \div 2^d>>
         ELSE IF d < 54 THEN <<0, m[1] \div 2^(d - 27)>> ELSE <<0, 0>>

\* bit k of m
WBit(m, k) ==
    IF k < 0 THEN 0
    ELSE IF k < 27 THEN (m[2] \div 2^k) % 2
         ELSE IF k < 54 THEN (m[1] \div 2^(k - 27)) % 2 ELSE 0

\* whether a bit of m below bit k is set
WLow(m, k) ==
    IF k <= 0 THEN FALSE
    ELSE IF k <= 27 THEN m[2] % 2^k # 0
         ELSE IF k < 54 THEN m[2] # 0 \/ m[1] % 2^(k - 27) # 0
              ELSE m[2] # 0 \/ m[1] # 0

WOdd(m) == m[2] % 2 = 1

F64(m, e) == [h |-> m[1], l |-> m[2], e |-> e]

Sig(v) == <<v.h, v.l>>

\* a + b on f64, for a, b >= 0
F64Add(a, b) ==
    LET big   == IF a.e >= b.e THEN a ELSE b
        small == IF a.e >= b.e THEN b ELSE a
        d     == big.e - small.e
        guard == WBit(Sig(small), d - 1) = 1
        stick == WLow(Sig(small), d - 1)
        sum   == WAdd(Sig(big), WShr(Sig(small), d))
        half  == WShr(sum, 1)
        m     == IF sum[1] < Top
                 THEN IF guard /\ (stick \/ WOdd(sum)) THEN WInc(sum) ELSE sum
                 ELSE IF WOdd(sum) /\ (guard \/ stick \/ WOdd(half))
                      THEN WInc(half) ELSE half
        e     == IF sum[1] < Top THEN big.e ELSE big.e + 1
    IN  IF m[1] >= Top THEN F64(WShr(m, 1), e + 1) ELSE F64(m, e)

\* a / 2.0 on f64, for a >= 0
F64Half(a) ==
    IF a.e > EMin
    THEN F64(Sig(a), a.e - 1)
    ELSE LET half == WShr(Sig(a), 1)
         IN  F64(IF WOdd(Sig(a)) /\ WOdd(half) THEN WInc(half) ELSE half, EMin)

F64Zero == F64(<<0, 0>>, EMin)

RECURSIVE F64Normal(_, _)
\* the f64 of significand m and exponent e, m not yet normalized
F64Normal(m, e) ==
    IF m = <<0, 0>> THEN F64Zero
    ELSE IF m[1] >= Top \div 2 THEN F64(m, e)
         ELSE F64Normal(<<2 * m[1] + m[2] \div (Limb \div 2),
                          2 * (m[2] % (Limb \div 2))>>, e - 1)

\* the f64 value n / 2^k, for a natural number n < 2^27
F64Of(n, k) == F64Normal(<<0, n>>, -k)

\* a component as a multiple of 2^-16; -1 if it is not one
Units(v) ==
    LET d == -(v.e + 16)
        m == WShr(Sig(v), d)
    IN  IF v = F64Zero THEN 0
        ELSE IF d < 0 \/ WLow(Sig(v), d) \/ m[1] # 0 THEN -1 ELSE m[2]

\* (p + q) / 2.0, the blend of two components
MixKeepOld(p, q) == p

Mix(p, q) == F64Half(F64Add(p, q))

\* the three components blended
Blend(p, q) == <<Mix(p[1], q[1]), Mix(p[2], q[2]), Mix(p[3], q[3])>>

\* color_map(v / 4) for v in 0..4: (value, 0, 1 - value)
ColorMap(v) == <<F64Of(v, 2), F64Zero, F64Of(4 - v, 2)>>

Red == ColorMap(4)

Blue == ColorMap(0)

(***************************************************************************)
(* Transforms.  Coefficients a, b, d, e are integers; c, f are in half     *)
(* units; weight is in thousandths; color is a triple of f64 values.       *)
(***************************************************************************)
Transform(ca, cb, cc, cd, ce, cf, w, col) ==
    [a |-> ca, b |-> cb, c |-> cc, d |-> cd, e |-> ce, f |-> cf,
     weight |-> w, color |-> col]

TIdentity == Transform(1, 0, 0, 0, 1, 0, 1000, Red)
TRotate   == Transform(0, -1, 0, 1, 0, 0, 370, Blue)
TFlip     == Transform(-1, 0, 1, 0, -1, 0, 570, ColorMap(2))
TZero     == Transform(1, 0, 0, 0, 1, 0, 0, Blue)
TNegative == Transform(1, 0, 0, 0, 1, 0, -22, Blue)

\* transform lists whose weights WeightedIndex accepts
ValidSets ==
    { <<TIdentity>>, <<TRotate>>, <<TZero, TIdentity>>, <<TRotate, TFlip>> }

\* transform lists whose weights WeightedIndex rejects
InvalidSets ==
    { <<>>, <<TZero>>, <<TZero, TZero>>, <<TIdentity, TNegative>>,
      <<TNegative, TIdentity>> }

RECURSIVE SumWeights(_)
SumWeights(ts) ==
    IF ts = <<>> THEN 0 ELSE ts[1].weight + SumWeights(Tail(ts))

\* WeightedIndex::new(&weights) returns Err for: no item, a weight that is
\* not >= 0, a total weight of zero.
WeightedIndexNew(ts) ==
    /\ Len(ts) > 0
    /\ \A k \in 1..Len(ts) : ts[k].weight >= 0
    /\ SumWeights(ts) # 0

\* dist.sample(&mut rng): an index whose weight is positive (0-based)
Samples(ts) == { k \in 0..(Len(ts) - 1) : ts[k + 1].weight > 0 }

(***************************************************************************)
(* AffineTransform::apply, affine step and the Linear variation.           *)
(* serial.rs assigns x first and computes y from the new x; main.rs and    *)
(* main1.rs compute both from the arguments.                               *)
(***************************************************************************)
ApplySequential(t, px, py) ==
    LET nx == t.a * px + t.b * py + t.c
        ny == t.d * nx + t.e * py + t.f
    IN  <<nx, ny>>

ApplyTuple(t, px, py) ==
    <<t.a * px + t.b * py + t.c, t.d * px + t.e * py + t.f>>

Apply(v, t, px, py) ==
    IF v = "serial" THEN ApplySequential(t, px, py) ELSE ApplyTuple(t, px, py)

(***************************************************************************)
(* The stages that a specification does not run stay as they are built.    *)
(***************************************************************************)
IdleChaos ==
    /\ variant = "main"
    /\ transforms = <<TIdentity>>
    /\ iterations = 0
    /\ rank = 0
    /\ size = 1
    /\ pc = "idle"
    /\ x = 0
    /\ y = 0
    /\ i = 0
    /\ points = <<>>
    /\ applied = <<>>

NoExtrema == [min_x |-> 0, max_x |-> 0, min_y |-> 0, max_y |-> 0]

IdlePix ==
    /\ pixPc = "idle"
    /\ orbit = <<>>
    /\ width = 0
    /\ height = 0
    /\ extrema = NoExtrema
    /\ norms = <<>>
    /\ pixel_points = <<>>

EmptyMap == [k \in {} |-> 0]

IdleHist ==
    /\ histPc = "idle"
    /\ c = Blue
    /\ pos = 0
    /\ parts = <<>>
    /\ histogram = EmptyMap

IdleMerge ==
    /\ wpc = <<>>
    /\ local_histogram = <<>>
    /\ serialized = <<>>
    /\ sizes = <<>>
    /\ gathered = <<>>
    /\ global_histogram = <<>>
    /\ calls = <<>>

NoTransform ==
    [a |-> 1, b |-> 0, c |-> 0, d |-> 0, e |-> 1, f |-> 0, variations |-> <<>>]

IdleApply ==
    /\ apPc = "idle"
    /\ self = NoTransform
    /\ vx = 0
    /\ vy = 0
    /\ vr = 0
    /\ vpos = 0

(***************************************************************************)
(* chaos_game.                                                             *)
(***************************************************************************)
\* rng.gen_range(-1.0..1.0), in half units
StartCoords == {-2, 1}

\* let local_iterations = iterations / size as u32;
LocalIterationsCeil ==
    IF variant = "mpi" THEN (iterations + size - 1) \div size ELSE iterations

LocalIterations == IF variant = "mpi" THEN iterations \div size ELSE iterations

\* let start_iteration = rank as u32 * local_iterations;
StartIteration == IF variant = "mpi" THEN rank * LocalIterations ELSE 0

EndIteration == StartIteration + LocalIterations

\* the push of the loop body is guarded by `i >= 20`
RecordsOffByOne(k) == k > WARMUP

Records(k) == k >= WARMUP

\* struct literal `IFS { transforms: ... }`: every list builds an IFS
BuiltIFS ==
    /\ variant \in Variants
    /\ transforms \in ValidSets \cup InvalidSets
    /\ size \in 1..MaxSize
    /\ rank \in 0..(size - 1)
    /\ variant # "mpi" => size = 1
    /\ iterations \in 0..(MaxSize * (WARMUP + MaxExtra))
    /\ Cardinality(Samples(transforms)) > 1 => iterations <= WARMUP + MaxExtra
    /\ pc = "constructed"
    /\ x = 0
    /\ y = 0
    /\ i = 0
    /\ points = <<>>
    /\ applied = <<>>

\* let mut x = rng.gen_range(-1.0..1.0); let mut y = ...; let mut points
ChaosStart ==
    /\ pc = "constructed"
    /\ x' \in StartCoords
    /\ y' \in StartCoords
    /\ points' = <<>>
    /\ applied' = <<>>
    /\ pc' = "drawn"
    /\ UNCHANGED <<variant, transforms, iterations, rank, size, i>>
    /\ UNCHANGED notChaos

\* WeightedIndex::new(&weights).unwrap(), then the loop header
BuildDistNoUnwrap ==
    /\ pc = "drawn"
    /\ pc' = "looping"
    /\ i' = StartIteration
    /\ UNCHANGED <<variant, transforms, iterations, rank, size, x, y,
                   points, applied>>
    /\ UNCHANGED notChaos

BuildDist ==
    /\ pc = "drawn"
    /\ IF WeightedIndexNew(transforms)
       THEN /\ pc' = "looping"
            /\ i' = StartIteration
       ELSE /\ pc' = "panicked"
            /\ i' = i
    /\ UNCHANGED <<variant, transforms, iterations, rank, size, x, y,
                   points, applied>>
    /\ UNCHANGED notChaos

\* one pass of the loop body
Iterate ==
    /\ pc = "looping"
    /\ i < EndIteration
    /\ \E transform_index \in Samples(transforms) :
          LET p == Apply(variant, transforms[transform_index + 1], x, y)
          IN  /\ x' = p[1]
              /\ y' = p[2]
              /\ IF Records(i)
                 THEN /\ points' = Append(points,
                              [pt |-> p, index |-> transform_index])
                      /\ applied' = Append(applied, i - StartIteration + 1)
                 ELSE /\ points' = points
                      /\ applied' = applied
    /\ i' = i + 1
    /\ UNCHANGED <<variant, transforms, iterations, rank, size, pc>>
    /\ UNCHANGED notChaos

\* the loop ends and `points` is returned
ChaosReturn ==
    /\ pc = "looping"
    /\ i >= EndIteration
    /\ pc' = "returned"
    /\ UNCHANGED <<variant, transforms, iterations, rank, size, x, y, i,
                   points, applied>>
    /\ UNCHANGED notChaos

ChaosNext == ChaosStart \/ BuildDist \/ Iterate \/ ChaosReturn

InitChaos ==
    /\ BuiltIFS
    /\ IdlePix
    /\ IdleHist
    /\ IdleMerge
    /\ IdleApply

SpecChaos == InitChaos /\ [][ChaosNext]_vars

(***************************************************************************)
(* Claims about chaos_game.                                                *)
(***************************************************************************)
Max(m, n) == IF m >= n THEN m ELSE n

\* C1: in the single-process variants chaos_game(N) holds, after i passes
\* of the loop, exactly max(i - 20, 0) entries, the k-th of them pushed by
\* the (20 + k)-th applied transform; it returns after N passes, so with
\* N - 20 entries for N >= 20 and none for N < 20.
C1_WarmupSingle ==
    (variant # "mpi" /\ pc \in {"looping", "returned"}) =>
        /\ Len(points) = Max(i - WARMUP, 0)
        /\ Len(applied) = Len(points)
        /\ \A k \in 1..Len(points) : applied[k] = WARMUP + k
        /\ pc = "returned" =>
              /\ i = iterations
              /\ Len(points) = IF iterations >= 20 THEN iterations - 20 ELSE 0

C1_Witness ==
    /\ variant # "mpi"
    /\ pc = "returned"
    /\ iterations = WARMUP + 2
    /\ Len(points) = 2
    /\ applied = <<21, 22>>

\* C2 (as claimed): every MPI worker drops the outputs of its own first 20
\* applied transforms: with a local share L >= 20 it returns L - 20
\* entries and no entry was pushed by one of its first 20 transforms.
C2_WarmupPerWorker ==
    (variant = "mpi" /\ pc = "returned") =>
        /\ LocalIterations >= WARMUP =>
              Len(points) = LocalIterations - WARMUP
        /\ \A k \in 1..Len(points) : applied[k] > WARMUP

Fin(n, d) == [kind |-> "fin", num |-> n, den |-> d]

NaN == [kind |-> "nan", num |-> 0, den |-> 1]

PosInf == [kind |-> "inf", num |-> 1, den |-> 1]

NegInf == [kind |-> "inf", num |-> -1, den |-> 1]

\* i32::MAX and i32::MIN, the results of a saturating `as i32`
I32Max == 2147483647

I32Min == -2147483647 - 1

\* a / b for two finite f64 values a and b given in the same unit
F64Div(a, b) ==
    IF b = 0
    THEN IF a = 0 THEN NaN ELSE IF a > 0 THEN PosInf ELSE NegInf
    ELSE IF b > 0 THEN Fin(a, b) ELSE Fin(-a, -b)

\* q * (w as f64) for an unsigned integer w
F64MulInt(q, w) ==
    CASE q.kind = "fin" -> Fin(q.num * w, q.den)
      [] q.kind = "nan" -> NaN
      [] OTHER -> IF w = 0 THEN NaN ELSE q

\* f64::round: to the nearest integer, ties away from zero
F64Round(q) ==
    IF q.kind # "fin"
    THEN q
    ELSE IF q.num >= 0
         THEN Fin((2 * q.num + q.den) \div (2 * q.den), 1)
         ELSE Fin(-((2 * (-q.num) + q.den) \div (2 * q.den)), 1)

\* `as i32` of an integral f64: NaN gives 0, the rest saturates
AsI32(q) ==
    CASE q.kind = "nan" -> 0
      [] q.kind = "inf" -> IF q.num > 0 THEN I32Max ELSE I32Min
      [] OTHER -> IF q.num > I32Max THEN I32Max
                  ELSE IF q.num < I32Min THEN I32Min ELSE q.num

RECURSIVE FoldMin(_, _, _)
\* .fold(f64::INFINITY, f64::min) over the elements lo..hi of a list of
\* finite values: f64::min is associative on them, so the fold is computed
\* by halves
FoldMin(vals, lo, hi) ==
    IF lo = hi THEN vals[lo]
    ELSE LET mid == (lo + hi) \div 2
             left == FoldMin(vals, lo, mid)
             right == FoldMin(vals, mid + 1, hi)
         IN  IF right < left THEN right ELSE left

RECURSIVE FoldMax(_, _, _)
\* .fold(f64::NEG_INFINITY, f64::max), likewise
FoldMax(vals, lo, hi) ==
    IF lo = hi THEN vals[lo]
    ELSE LET mid == (lo + hi) \div 2
             left == FoldMax(vals, lo, mid)
             right == FoldMax(vals, mid + 1, hi)
         IN  IF right > left THEN right ELSE left

Xs(ps) == [k \in 1..Len(ps) |-> ps[k].pt[1]]

Ys(ps) == [k \in 1..Len(ps) |-> ps[k].pt[2]]

\* the four folds; over an empty list they return their initial values
Extrema(ps) ==
    IF ps = <<>>
    THEN [min_x |-> PosInf, max_x |-> NegInf,
          min_y |-> PosInf, max_y |-> NegInf]
    ELSE [min_x |-> FoldMin(Xs(ps), 1, Len(ps)),
          max_x |-> FoldMax(Xs(ps), 1, Len(ps)),
          min_y |-> FoldMin(Ys(ps), 1, Len(ps)),
          max_y |-> FoldMax(Ys(ps), 1, Len(ps))]

\* (x - min_x) / (max_x - min_x) and (y - min_y) / (max_y - min_y)
Normalized(p, ext) ==
    [x |-> F64Div(p[1] - ext.min_x, ext.max_x - ext.min_x),
     y |-> F64Div(p[2] - ext.min_y, ext.max_y - ext.min_y)]

\* (q * (extent as f64)).round() as i32
PixelCoord(q, extent) == AsI32(F64Round(F64MulInt(q, extent)))

\* ((pixel_x, height as i32 - pixel_y), index)
ToPixel(e, ext, w, h) ==
    LET n == Normalized(e.pt, ext)
    IN  [px |-> <<PixelCoord(n.x, w), h - PixelCoord(n.y, h)>>,
         index |-> e.index]

\* the four folds over `points`
PixBounds ==
    /\ pixPc = "called"
    /\ extrema' = Extrema(orbit)
    /\ norms' = <<>>
    /\ pixel_points' = <<>>
    /\ pixPc' = "mapping"
    /\ UNCHANGED <<orbit, width, height>>
    /\ UNCHANGED notPix

\* the closure of `map`, on the next point
PixMap ==
    /\ pixPc = "mapping"
    /\ Len(pixel_points) < Len(orbit)
    /\ LET e == orbit[Len(pixel_points) + 1]
       IN  /\ norms' = Append(norms, Normalized(e.pt, extrema))
           /\ pixel_points' = Append(pixel_points,
                                     ToPixel(e, extrema, width, height))
    /\ UNCHANGED <<pixPc, orbit, width, height, extrema>>
    /\ UNCHANGED notPix

\* collect()
PixReturn ==
    /\ pixPc = "mapping"
    /\ Len(pixel_points) = Len(orbit)
    /\ pixPc' = "returned"
    /\ UNCHANGED <<orbit, width, height, extrema, norms, pixel_points>>
    /\ UNCHANGED notPix

PixNext == PixBounds \/ PixMap \/ PixReturn

\* the orbits, widths and heights the function is called on
OrbitCoords == {-1, 0, 2}

OrbitEntries ==
    { [pt |-> <<px, py>>, index |-> 0] : px \in OrbitCoords, py \in OrbitCoords }

RasterSizes == { <<10, 10>>, <<4, 3>> }

Orbits == UNION { [1..n -> OrbitEntries] : n \in 0..MaxPts }

InitPixels ==
    /\ IdleChaos
    /\ IdleHist
    /\ IdleMerge
    /\ IdleApply
    /\ pixPc = "called"
    /\ orbit \in Orbits
    /\ \E wh \in RasterSizes : width = wh[1] /\ height = wh[2]
    /\ extrema = NoExtrema
    /\ norms = <<>>
    /\ pixel_points = <<>>

SpecPixels == InitPixels /\ [][PixNext]_vars

(***************************************************************************)
(* Claims about transform_to_pixels.                                       *)
(***************************************************************************)
IsZero(q) == q.kind = "fin" /\ q.num = 0

\* C9 (as claimed): on an axis on which all points of a non-empty orbit
\* agree, no quotient is computed by dividing by zero, the normalized
\* coordinate is the constant 0, and every point gets a defined pixel.
C9_DegenerateHandled ==
    \A k \in 1..Len(pixel_points) :
        /\ extrema.max_x = extrema.min_x => IsZero(norms[k].x)
        /\ extrema.max_y = extrema.min_y => IsZero(norms[k].y)
        /\ pixel_points[k].px \in Int \X Int

(***************************************************************************)
(* create_histogram.  A HashMap is a function from its keys to its values; *)
(* a value is [color, hits].                                               *)
(***************************************************************************)
Entry(col, n) == [color |-> col, hits |-> n]

Put(h, key, val) ==
    [k \in DOMAIN h \cup {key} |-> IF k = key THEN val ELSE h[k]]

\* the loop body of the sequential versions: or_insert((transform_color,
\* 0)), hits += 1, and the blend with the old colour or with c
AccumulateNoRef(h, ref, key, t) ==
    IF key \in DOMAIN h
    THEN Put(h, key, Entry(Blend(h[key].color, t), h[key].hits + 1))
    ELSE Put(h, key, Entry(t, 1))

Accumulate(h, ref, key, t) ==
    IF key \in DOMAIN h
    THEN Put(h, key, Entry(Blend(h[key].color, t), h[key].hits + 1))
    ELSE Put(h, key, Entry(Blend(ref, t), 1))

\* the closure of rayon's fold: as above, without a blend on the first hit
FoldStep(h, key, t) ==
    IF key \in DOMAIN h
    THEN Put(h, key, Entry(Blend(h[key].color, t), h[key].hits + 1))
    ELSE Put(h, key, Entry(t, 1))

RECURSIVE FoldSlice(_, _, _)
\* fold(HashMap::new, ..) over one slice of the input
FoldSlice(h, es, ts) ==
    IF es = <<>> THEN h
    ELSE FoldSlice(FoldStep(h, es[1].px, ts[es[1].index + 1].color),
                   Tail(es), ts)

\* one pass of the loop of the reduce closure, for one key of the right map
ReduceKeyKeepFirst(acc, key, val) ==
    IF key \in DOMAIN acc THEN acc ELSE Put(acc, key, val)

ReduceKeySumOnly(acc, key, val) ==
    LET old == IF key \in DOMAIN acc THEN acc[key] ELSE Entry(val.color, 0)
    IN  Put(acc, key, Entry(old.color, old.hits + val.hits))

ReduceKey(acc, key, val) ==
    LET old == IF key \in DOMAIN acc THEN acc[key] ELSE Entry(val.color, 0)
    IN  Put(acc, key, Entry(Blend(old.color, val.color), old.hits + val.hits))

\* the reduce closure: every key of the right map is merged into the left
\* one; the keys of a map are distinct, so their order has no effect
ReduceOp(acc, local) ==
    [k \in DOMAIN acc \cup DOMAIN local |->
        IF k \in DOMAIN local
        THEN ReduceKey(acc, k, local[k])[k]
        ELSE acc[k]]

\* let c = color_map(rng.gen_range(0.0..1.0)), in quarters
RefValues == 0..3

\* let mut histogram = HashMap::new(); let c = ...
HistStart ==
    /\ variant # "mpi"
    /\ histPc = "called"
    /\ \E v \in RefValues : c' = ColorMap(v)
    /\ histogram' = EmptyMap
    /\ pos' = 0
    /\ histPc' = "looping"
    /\ UNCHANGED parts
    /\ UNCHANGED notHist

\* one pass of `for &((x, y), index) in pixel_points`
HistStep ==
    /\ variant # "mpi"
    /\ histPc = "looping"
    /\ pos < Len(pixel_points)
    /\ LET e == pixel_points[pos + 1]
       IN  histogram' =
               Accumulate(histogram, c, e.px, transforms[e.index + 1].color)
    /\ pos' = pos + 1
    /\ UNCHANGED <<histPc, c, parts>>
    /\ UNCHANGED notHist

\* the loop ends and `histogram` is returned
HistReturn ==
    /\ variant # "mpi"
    /\ histPc = "looping"
    /\ pos = Len(pixel_points)
    /\ histPc' = "returned"
    /\ UNCHANGED <<c, pos, parts, histogram>>
    /\ UNCHANGED notHist

\* the slices [from, to] that a set of cut points makes of 1..n
Slices(n, cuts) ==
    LET starts == {1} \cup { k + 1 : k \in cuts }
    IN  { <<a, b>> \in (1..n) \X (1..n) :
            /\ a \in starts
            /\ a <= b
            /\ b = n \/ b \in cuts
            /\ \A k \in a..(b - 1) : k \notin cuts }

RECURSIVE InOrder(_)
\* a set of disjoint slices as the list of them, leftmost first
InOrder(sl) ==
    IF sl = {} THEN <<>>
    ELSE LET first == CHOOSE q \in sl : \A r \in sl : q[1] <= r[1]
         IN  <<first>> \o InOrder(sl \ {first})

\* par_iter(): rayon cuts the input into contiguous slices
RayonSplit ==
    /\ variant = "mpi"
    /\ histPc = "called"
    /\ \E cuts \in SUBSET (1..(Len(pixel_points) - 1)) :
          LET sl == InOrder(Slices(Len(pixel_points), cuts))
          IN  parts' = [k \in 1..Len(sl) |->
                          [from |-> sl[k][1], to |-> sl[k][2],
                           folded |-> FALSE, joins |-> 0,
                           hist |-> EmptyMap]]
    /\ histPc' = "folding"
    /\ UNCHANGED <<c, pos, histogram>>
    /\ UNCHANGED notHist

\* a task folds its slice into a private map, which the reduce consumer
\* merges into its own identity map
RayonFold ==
    /\ variant = "mpi"
    /\ histPc = "folding"
    /\ \E k \in 1..Len(parts) :
          /\ ~parts[k].folded
          /\ parts' = [parts EXCEPT ![k].folded = TRUE,
                         ![k].hist = ReduceOp(EmptyMap,
                             FoldSlice(EmptyMap,
                                 SubSeq(pixel_points, parts[k].from, parts[k].to),
                                 transforms))]
    /\ UNCHANGED <<histPc, c, pos, histogram>>
    /\ UNCHANGED notHist

\* two neighbouring results are reduced, the left one as `acc`
RayonReduce ==
    /\ variant = "mpi"
    /\ histPc = "folding"
    /\ \E k \in 1..(Len(parts) - 1) :
          /\ parts[k].folded
          /\ parts[k + 1].folded
          /\ parts' = SubSeq(parts, 1, k - 1)
                      \o <<[from |-> parts[k].from, to |-> parts[k + 1].to,
                            folded |-> TRUE,
                            joins |-> parts[k].joins + parts[k + 1].joins + 1,
                            hist |-> ReduceOp(parts[k].hist, parts[k + 1].hist)]>>
                      \o SubSeq(parts, k + 2, Len(parts))
    /\ UNCHANGED <<histPc, c, pos, histogram>>
    /\ UNCHANGED notHist

\* reduce returns the last result, or its identity for an empty input
RayonReturn ==
    /\ variant = "mpi"
    /\ histPc = "folding"
    /\ \/ /\ parts = <<>>
          /\ histogram' = EmptyMap
       \/ /\ Len(parts) = 1
          /\ parts[1].folded
          /\ histogram' = parts[1].hist
    /\ histPc' = "returned"
    /\ UNCHANGED <<c, pos, parts>>
    /\ UNCHANGED notHist

HistNext ==
    \/ HistStart
    \/ HistStep
    \/ HistReturn
    \/ RayonSplit
    \/ RayonFold
    \/ RayonReduce
    \/ RayonReturn

\* the inputs create_histogram is called on
HistPixels == { <<0, 10>>, <<3, 7>> }

HistSets == { <<TRotate, TIdentity>>, <<TFlip, TRotate>> }

HistInputs ==
    UNION { [1..n -> { [px |-> p, index |-> k] : p \in HistPixels, k \in 0..1 }] :
            n \in 0..MaxLen }

InitHist ==
    /\ variant \in Variants
    /\ transforms \in HistSets
    /\ iterations = 0
    /\ rank = 0
    /\ size = 1
    /\ pc = "returned"
    /\ x = 0
    /\ y = 0
    /\ i = 0
    /\ points = <<>>
    /\ applied = <<>>
    /\ pixPc = "returned"
    /\ orbit = <<>>
    /\ width = 10
    /\ height = 10
    /\ extrema = NoExtrema
    /\ norms = <<>>
    /\ pixel_points \in HistInputs
    /\ histPc = "called"
    /\ c = Blue
    /\ pos = 0
    /\ parts = <<>>
    /\ histogram = EmptyMap
    /\ IdleMerge
    /\ IdleApply

SpecHist == InitHist /\ [][HistNext]_vars

(***************************************************************************)
(* Claims about create_histogram.                                          *)
(***************************************************************************)
\* how many of the elements from..to of the input lie on pixel p
Landed(p, from, to) ==
    Cardinality({ k \in from..to : pixel_points[k].px = p })

Counts(h, from, to) ==
    /\ DOMAIN h = { pixel_points[k].px : k \in from..to }
    /\ \A p \in DOMAIN h : h[p].hits = Landed(p, from, to)

\* C3: the map returned by create_histogram has exactly the distinct pixels
\* of the input as keys and, for each, the number of input elements on that
\* pixel as hits: in the sequential loop after every pass (for the prefix
\* consumed), and in the rayon version for every slice folded, every result
\* of a reduction and the map returned, however the input was cut and in
\* whatever order the results were reduced.
C3_HitsCount ==
    /\ (variant # "mpi" /\ histPc \in {"looping", "returned"}) =>
           Counts(histogram, 1, pos)
    /\ \A k \in 1..Len(parts) :
           parts[k].folded => Counts(parts[k].hist, parts[k].from, parts[k].to)
    /\ histPc = "returned" => Counts(histogram, 1, Len(pixel_points))

C3_Witness ==
    /\ variant = "mpi"
    /\ histPc = "returned"
    /\ Len(parts) = 1
    /\ parts[1].joins = 2
    /\ \E p \in DOMAIN histogram : histogram[p].hits = 2
    /\ Cardinality(DOMAIN histogram) = 2

\* one pass of the sequential loop, as the blend rule describes it
C4_Pass ==
    (variant # "mpi" /\ histPc = "looping" /\ pos' = pos + 1) =>
        LET e    == pixel_points[pos + 1]
            t    == transforms[e.index + 1].color
            prev == IF e.px \in DOMAIN histogram
                    THEN histogram[e.px].color ELSE c
            next == histogram'[e.px].color
        IN  /\ c' = c
            /\ DOMAIN histogram' = DOMAIN histogram \cup {e.px}
            /\ \A j \in 1..3 :
                   /\ Units(prev[j]) >= 0
                   /\ Units(t[j]) >= 0
                   /\ Units(next[j]) >= 0
                   /\ 2 * Units(next[j]) = Units(prev[j]) + Units(t[j])
            /\ \A p \in DOMAIN histogram \ {e.px} : histogram'[p] = histogram[p]

\* C4: in the sequential create_histogram, a pixel's colour after its first
\* hit is (c + t)/2 and after each later hit (colour before + t)/2,
\* component by component, t being the colour of the transform of the point
\* that lands; a point changes no other pixel's entry, and c, drawn once at
\* the start of the call, is the same for every pixel.
C4_BlendRule == [][C4_Pass]_vars

C4_Witness ==
    /\ variant # "mpi"
    /\ histPc = "returned"
    /\ c # Blue
    /\ Cardinality(DOMAIN histogram) = 2
    /\ \E p \in DOMAIN histogram : histogram[p].hits = 2

(***************************************************************************)
(* bincode::serialize / bincode::deserialize of Vec<HistogramEntry>:       *)
(* little-endian, fixed width; a Vec is its length as a u64 and then its   *)
(* elements; a HistogramEntry is key.0, key.1 (i32), the three colour      *)
(* components (f64), hits (u32): 36 bytes.  A byte is a number in 0..255.  *)
(* A u32 above i32::MAX is held as the number minus 2^32, and an f64 bit   *)
(* pattern with the sign bit set or with exponent field 2047 is held as    *)
(* [h, l, e] with h, l the limbs of the fraction field and                 *)
(* e = 10000 + 2048 * sign + exponent field.                               *)
(***************************************************************************)
\* the four bytes of an i32 or u32
Enc32(v) ==
    <<v % 256, (v \div 256) % 256, (v \div 65536) % 256,
      (v \div 16777216) % 256>>

Dec32(b) ==
    b[1] + 256 * b[2] + 65536 * b[3]
    + 16777216 * (IF b[4] >= 128 THEN b[4] - 256 ELSE b[4])

\* the eight bytes of a length
EncLen(n) == Enc32(n) \o <<0, 0, 0, 0>>

\* sign, exponent field and fraction limbs of an f64
F64Fields(v) ==
    IF v.e >= 10000
    THEN [sign |-> (v.e - 10000) \div 2048, expo |-> (v.e - 10000) % 2048,
          fh |-> v.h, fl |-> v.l]
    ELSE IF v.h >= Top \div 2
         THEN [sign |-> 0, expo |-> v.e + 1075, fh |-> v.h - Top \div 2,
               fl |-> v.l]
         ELSE [sign |-> 0, expo |-> 0, fh |-> v.h, fl |-> v.l]

EncF64(v) ==
    LET w == F64Fields(v)
    IN  <<w.fl % 256, (w.fl \div 256) % 256, (w.fl \div 65536) % 256,
          w.fl \div 16777216 + 8 * (w.fh % 32),
          (w.fh \div 32) % 256, (w.fh \div 8192) % 256,
          w.fh \div 2097152 + 16 * (w.expo % 16),
          w.expo \div 16 + 128 * w.sign>>

DecF64(b) ==
    LET fl   == b[1] + 256 * b[2] + 65536 * b[3] + 16777216 * (b[4] % 8)
        fh   == b[4] \div 8 + 32 * b[5] + 8192 * b[6] + 2097152 * (b[7] % 16)
        expo == b[7] \div 16 + 16 * (b[8] % 128)
        sign == b[8] \div 128
    IN  IF sign = 0 /\ expo = 0 THEN F64(<<fh, fl>>, EMin)
        ELSE IF sign = 0 /\ expo < 2047
             THEN F64(<<fh + Top \div 2, fl>>, expo - 1075)
             ELSE [h |-> fh, l |-> fl, e |-> 10000 + 2048 * sign + expo]

\* the bytes of one HistogramEntry
EntryBytes == 36

EncEntry(key, val) ==
    Enc32(key[1]) \o Enc32(key[2])
    \o EncF64(val.color[1]) \o EncF64(val.color[2]) \o EncF64(val.color[3])
    \o Enc32(val.hits)

DecEntry(b) ==
    [key |-> <<Dec32(SubSeq(b, 1, 4)), Dec32(SubSeq(b, 5, 8))>>,
     value |-> Entry(<<DecF64(SubSeq(b, 9, 16)), DecF64(SubSeq(b, 17, 24)),
                       DecF64(SubSeq(b, 25, 32))>>,
                     Dec32(SubSeq(b, 33, 36)))]

RECURSIVE EncEntries(_, _)
EncEntries(h, keys) ==
    IF keys = <<>> THEN <<>>
    ELSE EncEntry(keys[1], h[keys[1]]) \o EncEntries(h, Tail(keys))

\* bincode::serialize(&local_histogram_data), the entries in the order
\* `keys` in which into_iter() visited the map
Serialize(h, keys) == EncLen(Len(keys)) \o EncEntries(h, keys)

\* bincode::deserialize(chunk): Err when the chunk is shorter than its
\* length field announces; bytes after the last entry are ignored
Deserialize(chunk) ==
    IF Len(chunk) < 8
    THEN [ok |-> FALSE, entries |-> <<>>]
    ELSE LET n == chunk[1] + 256 * chunk[2] + 65536 * chunk[3]
         IN  IF \/ \E k \in 4..8 : chunk[k] # 0
                \/ 8 + EntryBytes * n > Len(chunk)
             THEN [ok |-> FALSE, entries |-> <<>>]
             ELSE [ok |-> TRUE,
                   entries |-> [k \in 1..n |->
                       DecEntry(SubSeq(chunk, 9 + EntryBytes * (k - 1),
                                       8 + EntryBytes * k))]]

(***************************************************************************)
(* main of main1.rs from local_histogram on, one copy per MPI process:     *)
(* serialize, all_gather_into of the lengths, all_gather_into of the       *)
(* payloads, deserialize and merge.  wpc is LocalReady, Serialized,        *)
(* InSizes (inside the first collective), SizesKnown, InPayload (inside    *)
(* the second), Exchanged, Merged; Panicked after an unwrap of Err;        *)
(* Aborted after an MPI error; Failed when the process has died.           *)
(***************************************************************************)
Workers == 0..(size - 1)

\* the orders in which into_iter() can visit the keys of a HashMap
Orders(keys) ==
    { s \in [1..Cardinality(keys) -> keys] :
        \A a, b \in DOMAIN s : a # b => s[a] # s[b] }

RECURSIVE Sum(_)
Sum(s) == IF s = <<>> THEN 0 ELSE Head(s) + Sum(Tail(s))

\* a collective returns on a process only when every process of the world
\* has entered it
ArrivedAlone(n) == TRUE

Arrived(n) == \A q \in Workers : calls[q] >= n

\* let serialized_local_histogram = bincode::serialize(...).unwrap()
SerializeLocal(r) ==
    /\ wpc[r] = "LocalReady"
    /\ \E keys \in Orders(DOMAIN local_histogram[r]) :
          serialized' = [serialized EXCEPT
                            ![r] = Serialize(local_histogram[r], keys)]
    /\ wpc' = [wpc EXCEPT ![r] = "Serialized"]
    /\ UNCHANGED <<local_histogram, sizes, gathered, global_histogram, calls>>
    /\ UNCHANGED <<notMerge>>

\* world.all_gather_into(&local_size, &mut sizes[..]) is entered
CallGatherSizes(r) ==
    /\ wpc[r] = "Serialized"
    /\ wpc' = [wpc EXCEPT ![r] = "InSizes"]
    /\ calls' = [calls EXCEPT ![r] = 1]
    /\ UNCHANGED <<local_histogram, serialized, sizes, gathered,
                   global_histogram>>
    /\ UNCHANGED <<notMerge>>

\* ... and returns: one usize from every process, in rank order
GatherSizesDone(r) ==
    /\ wpc[r] = "InSizes"
    /\ Arrived(1)
    /\ sizes' = [sizes EXCEPT
                    ![r] = [k \in 1..size |-> Len(serialized[k - 1])]]
    /\ wpc' = [wpc EXCEPT ![r] = "SizesKnown"]
    /\ UNCHANGED <<local_histogram, serialized, gathered, global_histogram,
                   calls>>
    /\ UNCHANGED <<notMerge>>

\* world.all_gather_into(&serialized_local_histogram[..],
\*                       &mut serialized_global_histogram[..]) is entered
CallGatherPayload(r) ==
    /\ wpc[r] = "SizesKnown"
    /\ wpc' = [wpc EXCEPT ![r] = "InPayload"]
    /\ calls' = [calls EXCEPT ![r] = 2]
    /\ UNCHANGED <<local_histogram, serialized, sizes, gathered,
                   global_histogram>>
    /\ UNCHANGED <<notMerge>>

\* all_gather_into receives recvbuf.count() / size elements from every
\* process
RecvCount(szs) == Sum(szs) \div Len(szs)

\* the send counts agree with the receive count
Uniform(szs) == \A k \in DOMAIN szs : szs[k] = RecvCount(szs)

\* vec![0u8; total_size] after the collective: the block of process q is
\* stored at q * recvcount, cut to recvcount bytes
GatheredBuffer(szs) ==
    [j \in 1..Sum(szs) |->
        LET q == (j - 1) \div RecvCount(szs)
            p == ((j - 1) % RecvCount(szs)) + 1
        IN  IF q < size /\ p <= Len(serialized[q]) THEN serialized[q][p]
            ELSE 0]

\* ... and returns with the buffer filled
GatherPayloadDone(r) ==
    /\ wpc[r] = "InPayload"
    /\ Arrived(2)
    /\ gathered' = [gathered EXCEPT ![r] = GatheredBuffer(sizes[r])]
    /\ wpc' = [wpc EXCEPT ![r] = "Exchanged"]
    /\ UNCHANGED <<local_histogram, serialized, sizes, global_histogram,
                   calls>>
    /\ UNCHANGED <<notMerge>>

\* ... or, the send counts differing from the receive count, the MPI
\* library reports the truncated message and ends the job
GatherPayloadAbort(r) ==
    /\ wpc[r] = "InPayload"
    /\ Arrived(2)
    /\ ~Uniform(sizes[r])
    /\ wpc' = [q \in Workers |->
                  IF wpc[q] \in {"Merged", "Panicked", "Failed"} THEN wpc[q]
                  ELSE "Aborted"]
    /\ UNCHANGED <<local_histogram, serialized, sizes, gathered,
                   global_histogram, calls>>
    /\ UNCHANGED <<notMerge>>

\* for entry in histogram_entries:
\*     global_histogram.entry(entry.key).or_insert(entry.value)
RECURSIVE InsertAll(_, _)
InsertAll(g, entries) ==
    IF entries = <<>> THEN g
    ELSE InsertAll(IF Head(entries).key \in DOMAIN g THEN g
                   ELSE Put(g, Head(entries).key, Head(entries).value),
                   Tail(entries))

\* for &size in &sizes: the chunk at offset, deserialized and merged
RECURSIVE MergeChunks(_, _, _, _)
MergeChunks(buf, szs, offset, g) ==
    IF szs = <<>> THEN [ok |-> TRUE, map |-> g]
    ELSE LET d == Deserialize(SubSeq(buf, offset + 1, offset + Head(szs)))
         IN  IF ~d.ok THEN [ok |-> FALSE, map |-> g]
             ELSE MergeChunks(buf, Tail(szs), offset + Head(szs),
                              InsertAll(g, d.entries))

\* the merge loop; bincode::deserialize(chunk).unwrap() panics on Err
MergeAll(r) ==
    /\ wpc[r] = "Exchanged"
    /\ LET m == MergeChunks(gathered[r], sizes[r], 0, EmptyMap)
       IN  /\ global_histogram' = [global_histogram EXCEPT ![r] = m.map]
           /\ wpc' = [wpc EXCEPT
                         ![r] = IF m.ok THEN "Merged" ELSE "Panicked"]
    /\ UNCHANGED <<local_histogram, serialized, sizes, gathered, calls>>
    /\ UNCHANGED <<notMerge>>

\* a process dies outside the collectives: the unwrap of serialize, a
\* println! to a closed stdout, the allocation of the receive buffer
WorkerFails(r) ==
    /\ wpc[r] \in {"LocalReady", "Serialized", "SizesKnown"}
    /\ wpc' = [wpc EXCEPT ![r] = "Failed"]
    /\ UNCHANGED <<local_histogram, serialized, sizes, gathered,
                   global_histogram, calls>>
    /\ UNCHANGED <<notMerge>>

MergeNext ==
    \/ \E r \in Workers : SerializeLocal(r)
    \/ \E r \in Workers : CallGatherSizes(r)
    \/ \E r \in Workers : GatherSizesDone(r)
    \/ \E r \in Workers : CallGatherPayload(r)
    \/ \E r \in Workers : GatherPayloadDone(r)
    \/ \E r \in Workers : GatherPayloadAbort(r)
    \/ \E r \in Workers : MergeAll(r)

BarrierNext ==
    \/ MergeNext
    \/ \E r \in Workers : WorkerFails(r)

\* the pixels and the values of the local histograms
MergeValues == { Entry(Red, 1), Entry(Blend(Red, Blue), 2) }

LocalHists ==
    UNION { [keys -> MergeValues] : keys \in SUBSET HistPixels }

BarrierHists == { EmptyMap, (<<0, 10>> :> Entry(Red, 1)) }

\* every process holds its local_histogram; nothing is exchanged yet
MergeStart(hists) ==
    /\ variant = "mpi"
    /\ transforms = <<TIdentity>>
    /\ iterations = 0
    /\ rank = 0
    /\ size \in 1..MaxSize
    /\ pc = "idle"
    /\ x = 0
    /\ y = 0
    /\ i = 0
    /\ points = <<>>
    /\ applied = <<>>
    /\ IdlePix
    /\ IdleHist
    /\ wpc = [r \in Workers |-> "LocalReady"]
    /\ local_histogram \in [Workers -> hists]
    /\ serialized = [r \in Workers |-> <<>>]
    /\ sizes = [r \in Workers |-> <<>>]
    /\ gathered = [r \in Workers |-> <<>>]
    /\ global_histogram = [r \in Workers |-> EmptyMap]
    /\ calls = [r \in Workers |-> 0]
    /\ IdleApply

InitMerge == MergeStart(LocalHists)

InitBarrier == MergeStart(BarrierHists)

SpecMerge == InitMerge /\ [][MergeNext]_vars

SpecBarrier == InitBarrier /\ [][BarrierNext]_vars

(***************************************************************************)
(* Claims about the exchange and the merge.                                *)
(***************************************************************************)
\* the lowest rank whose local histogram holds key k
FirstRank(k) ==
    CHOOSE r \in Workers :
        /\ k \in DOMAIN local_histogram[r]
        /\ \A q \in Workers : q < r => k \notin DOMAIN local_histogram[q]

AllKeys == UNION { DOMAIN local_histogram[q] : q \in Workers }

\* C5: the global histogram built by any process has the union of the local
\* key sets as its keys, and the value of every key is the local value of
\* the lowest rank that holds the key.
C5_FirstWriteWins ==
    \A r \in Workers :
        wpc[r] = "Merged" =>
            /\ DOMAIN global_histogram[r] = AllKeys
            /\ \A k \in AllKeys :
                  global_histogram[r][k] = local_histogram[FirstRank(k)][k]

\* the slice of process k in the gathered buffer of process r
SliceOf(r, k) ==
    LET offset == Sum(SubSeq(sizes[r], 1, k))
    IN  SubSeq(gathered[r], offset + 1, offset + sizes[r][k + 1])

\* the entries are the entries of the map h
EntriesOf(entries, h) ==
    /\ Len(entries) = Cardinality(DOMAIN h)
    /\ { entries[n].key : n \in DOMAIN entries } = DOMAIN h
    /\ \A n \in DOMAIN entries : h[entries[n].key] = entries[n].value

\* C6: the payload exchange returns on every process, whatever the payload
\* lengths, and then the slice of every process k in the gathered buffer is
\* the payload of k and deserializes to the local histogram of k.
C6_ExchangeFidelity ==
    \A r \in Workers :
        /\ wpc[r] # "Aborted"
        /\ wpc[r] \in {"Exchanged", "Merged", "Panicked"} =>
              \A k \in Workers :
                  /\ SliceOf(r, k) = serialized[k]
                  /\ Deserialize(SliceOf(r, k)).ok
                  /\ EntriesOf(Deserialize(SliceOf(r, k)).entries,
                               local_histogram[k])

\* the place of a position in the order of main
Stage(p) ==
    CASE p = "LocalReady" -> 1
      [] p = "Serialized" -> 2
      [] p = "InSizes" -> 3
      [] p = "SizesKnown" -> 4
      [] p = "InPayload" -> 5
      [] p = "Exchanged" -> 6
      [] p = "Merged" -> 7
      [] OTHER -> 0

\* a process moves to the next position of the order, or stops
C7_Step ==
    \A r \in Workers :
        wpc'[r] # wpc[r] =>
            /\ Stage(wpc[r]) > 0
            /\ \/ Stage(wpc'[r]) = 0
               \/ Stage(wpc'[r]) = Stage(wpc[r]) + 1

\* the lengths are exchanged before the payloads, and whoever is past the
\* exchange has seen every process enter both collectives
C7_Waits ==
    \A r \in Workers :
        /\ Stage(wpc[r]) >= 3 => calls[r] >= 1
        /\ Stage(wpc[r]) < 5 /\ Stage(wpc[r]) > 0 => calls[r] < 2
        /\ Stage(wpc[r]) >= 4 => \A q \in Workers : calls[q] >= 1
        /\ wpc[r] \in {"Exchanged", "Merged", "Panicked"} =>
              \A q \in Workers : calls[q] = 2

\* a process that died before entering both collectives keeps every
\* process out of Merged
C7_Stall ==
    (\E q \in Workers : wpc[q] = "Failed" /\ calls[q] < 2) =>
        \A r \in Workers : wpc[r] \notin {"Exchanged", "Merged", "Panicked"}

\* C7: in every interleaving each process passes through LocalReady,
\* Serialized, Exchanged, Merged in that order, the length exchange before
\* the payload exchange; no process starts to merge before every process
\* has called both collectives; a process that fails before calling them
\* keeps every process from reaching Merged.
C7_Barrier == [][C7_Step]_vars /\ [](C7_Waits /\ C7_Stall)

\* one process has merged while another, having called the payload
\* exchange, has not yet returned from it
C7_Witness ==
    \E r, q \in Workers :
        /\ wpc[r] = "Merged"
        /\ wpc[q] = "InPayload"
        /\ calls[q] = 2

(***************************************************************************)
(* The three functions of serial.rs run one after the other on an IFS      *)
(* holding the identity transform alone: chaos_game, then                  *)
(* transform_to_pixels on its points, then create_histogram on the pixels. *)
(***************************************************************************)
E2EIterations == { 21, 1000 }

\* ifs.transform_to_pixels(points, width, height)
CallPixels ==
    /\ pc = "returned"
    /\ pixPc = "idle"
    /\ orbit' = points
    /\ width' = 10
    /\ height' = 10
    /\ pixPc' = "called"
    /\ UNCHANGED <<extrema, norms, pixel_points>>
    /\ UNCHANGED notPix

\* ifs.create_histogram(&pixel_points)
CallHistogram ==
    /\ pixPc = "returned"
    /\ histPc = "idle"
    /\ histPc' = "called"
    /\ UNCHANGED <<c, pos, parts, histogram>>
    /\ UNCHANGED notHist

E2ENext ==
    \/ ChaosStart
    \/ BuildDist
    \/ Iterate
    \/ ChaosReturn
    \/ CallPixels
    \/ PixBounds
    \/ PixMap
    \/ PixReturn
    \/ CallHistogram
    \/ HistStart
    \/ HistStep
    \/ HistReturn

InitE2E ==
    /\ variant = "serial"
    /\ transforms = <<TIdentity>>
    /\ iterations \in E2EIterations
    /\ rank = 0
    /\ size = 1
    /\ pc = "constructed"
    /\ x = 0
    /\ y = 0
    /\ i = 0
    /\ points = <<>>
    /\ applied = <<>>
    /\ IdlePix
    /\ IdleHist
    /\ IdleMerge
    /\ IdleApply

SpecE2E == InitE2E /\ [][E2ENext]_vars

(***************************************************************************)
(* Claims about the three functions run end to end.                        *)
(***************************************************************************)
\* C10 (as claimed): the identity transform alone, coloured red, 1000
\* iterations and a 10 x 10 raster give a histogram of exactly one entry
\* with 980 hits and the colour red, whatever the starting point and the
\* reference colour.
C10_EndToEnd ==
    histPc = "returned" /\ iterations = 1000 =>
        /\ Cardinality(DOMAIN histogram) = 1
        /\ \A k \in DOMAIN histogram :
              /\ histogram[k].hits = 980
              /\ histogram[k].color = Red

\* C10 (amended): the histogram has exactly one entry, with
\* iterations - 20 hits (980 for 1000 iterations); its green component is
\* 0, its blue component is the blue component of the reference colour
\* halved once per hit and so is not 0, and after 980 hits its red
\* component is 1: the colour is red up to 2^-980 in blue, never red itself.
C10_EndToEndNearRed ==
    histPc = "returned" =>
        /\ Cardinality(DOMAIN histogram) = 1
        /\ \A k \in DOMAIN histogram :
              /\ histogram[k].hits = iterations - WARMUP
              /\ iterations = 1000 => histogram[k].hits = 980
              /\ iterations = 1000 => histogram[k].color[1] = Red[1]
              /\ histogram[k].color[2] = F64Zero
              /\ histogram[k].color[3] =
                     [c[3] EXCEPT !.e = @ - histogram[k].hits]
              /\ histogram[k].color[3] # F64Zero
              /\ histogram[k].color # Red

C10_Witness ==
    /\ histPc = "returned"
    /\ iterations = 1000
    /\ Len(points) = 980
    /\ \E k \in DOMAIN histogram : histogram[k].hits = 980

(***************************************************************************)
(* Claims about the reduction of the partial histograms.                   *)
(***************************************************************************)
\* this step reduces the results k and k + 1 into one
Reduced(k) ==
    /\ histPc = "folding"
    /\ Len(parts') = Len(parts) - 1
    /\ parts[k].folded
    /\ parts[k + 1].folded
    /\ parts'[k].from = parts[k].from
    /\ parts'[k].to = parts[k + 1].to

C11_KeepsFirstStep ==
    \A k \in 1..(Len(parts) - 1) :
        Reduced(k) =>
            \A p \in DOMAIN parts[k].hist \cap DOMAIN parts[k + 1].hist :
                parts'[k].hist[p] = parts[k].hist[p]

\* C11 (as claimed): when two partial histograms are reduced, a pixel held
\* by both keeps the colour and the hits of the one merged first; the
\* colour and hits of the other are neither blended in nor added.
C11_KeepsFirst == [][C11_KeepsFirstStep]_vars

C11_SumsAndBlendsStep ==
    \A k \in 1..(Len(parts) - 1) :
        Reduced(k) =>
            LET left   == parts[k].hist
                right  == parts[k + 1].hist
                merged == parts'[k].hist
            IN  /\ DOMAIN merged = DOMAIN left \cup DOMAIN right
                /\ \A p \in DOMAIN left \ DOMAIN right : merged[p] = left[p]
                /\ \A p \in DOMAIN right \ DOMAIN left : merged[p] = right[p]
                /\ \A p \in DOMAIN left \cap DOMAIN right :
                      /\ merged[p].hits = left[p].hits + right[p].hits
                      /\ \A j \in 1..3 :
                            /\ Units(left[p].color[j]) >= 0
                            /\ Units(right[p].color[j]) >= 0
                            /\ Units(merged[p].color[j]) >= 0
                            /\ 2 * Units(merged[p].color[j]) =
                                   Units(left[p].color[j])
                                   + Units(right[p].color[j])

\* C11 (amended): when two partial histograms are reduced, a pixel held by
\* both gets the sum of the two hits and the mean of the two colours,
\* component by component; a pixel held by one of them keeps its entry.
\* This is not the first-write-wins policy of the merge across processes.
C11_SumsAndBlends == [][C11_SumsAndBlendsStep]_vars

\* every point was folded on its own, and the reduction of the partials
\* has brought two of them together on one pixel
C11_Witness ==
    /\ variant = "mpi"
    /\ histPc = "folding"
    /\ \E k \in 1..Len(parts) :
          /\ parts[k].joins >= 1
          /\ parts[k].joins = parts[k].to - parts[k].from
          /\ \E p \in DOMAIN parts[k].hist : parts[k].hist[p].hits >= 2

(***************************************************************************)
(* Claims about AffineTransform::apply.                                    *)
(***************************************************************************)
C12_Pass ==
    (pc = "looping" /\ i' = i + 1) =>
        \E k \in Samples(transforms) :
            LET t == transforms[k + 1]
            IN  /\ x' = t.a * x + t.b * y + t.c
                /\ y' = t.d * x + t.e * y + t.f

\* C12: in every variant, a pass of the loop replaces the point (x, y) by
\* (a*x + b*y + c, d*x + e*y + f) for the coefficients of one of the
\* transforms, both coordinates computed from the point before the pass.
C12_AffineFromInput == [][C12_Pass]_vars

(***************************************************************************)
(* AffineTransform::apply of serial.rs with its list of variations.  A     *)
(* coordinate is a whole number of units of 1/1024; the coefficients a, b, *)
(* d, e are whole numbers, c and f are in units.  The calls are those on   *)
(* which every f64 operation is exact: the point after the affine step     *)
(* lies on an axis at a power of two from the origin.                      *)
(***************************************************************************)
MaxVars == 2

Unit == 1024

\* (n as f64).sqrt() for a perfect square n, in units
Sqrt(n) == CHOOSE s \in 0..(8 * Unit) : s * s = n

\* p / q, in units
Quot(p, q) == (p * Unit) \div q

\* the arm of the match for one variation; r is the value computed before
\* the loop
Vary(variation, px, py, r) ==
    CASE variation = "Linear" -> <<px, py>>
      [] variation = "Spherical" ->
             <<Quot(Quot(px, r), r), Quot(Quot(py, r), r)>>
      [] variation = "Horseshoe" -> <<Quot(px - py, r), Quot(px + py, r)>>

\* x = a*x + b*y + c; y = d*x + e*y + f; let r = (x*x + y*y).sqrt()
ApplyAffine ==
    /\ apPc = "called"
    /\ LET p == ApplySequential(self, vx, vy)
       IN  /\ vx' = p[1]
           /\ vy' = p[2]
           /\ vr' = Sqrt(p[1] * p[1] + p[2] * p[2])
    /\ apPc' = "varying"
    /\ UNCHANGED <<self, vpos>>
    /\ UNCHANGED notApply

\* one pass of `for variation in &self.variations`
ApplyVariation ==
    /\ apPc = "varying"
    /\ vpos < Len(self.variations)
    /\ LET p == Vary(self.variations[vpos + 1], vx, vy, vr)
       IN  /\ vx' = p[1]
           /\ vy' = p[2]
    /\ vpos' = vpos + 1
    /\ UNCHANGED <<apPc, self, vr>>
    /\ UNCHANGED notApply

\* (x, y)
ApplyReturn ==
    /\ apPc = "varying"
    /\ vpos = Len(self.variations)
    /\ apPc' = "returned"
    /\ UNCHANGED <<self, vx, vy, vr, vpos>>
    /\ UNCHANGED notApply

ApplyNext == ApplyAffine \/ ApplyVariation \/ ApplyReturn

Variations == { "Linear", "Spherical", "Horseshoe" }

VariationLists == UNION { [1..n -> Variations] : n \in 0..MaxVars }

\* the identity and the doubling
Affines == { 1, 2 }

\* points on an axis at 1/2, 1 or 2 from the origin
AxisPoints ==
    { <<s * m, 0>> : s \in {-1, 1}, m \in {Unit \div 2, Unit, 2 * Unit} }
    \cup { <<0, s * m>> : s \in {-1, 1}, m \in {Unit \div 2, Unit, 2 * Unit} }

InitApply ==
    /\ IdleChaos
    /\ IdlePix
    /\ IdleHist
    /\ IdleMerge
    /\ apPc = "called"
    /\ \E k \in Affines, vs \in VariationLists :
          self = [a |-> k, b |-> 0, c |-> 0, d |-> 0, e |-> k, f |-> 0,
                  variations |-> vs]
    /\ \E p \in AxisPoints : vx = p[1] /\ vy = p[2]
    /\ vr = 0
    /\ vpos = 0

SpecApply == InitApply /\ [][ApplyNext]_vars

(***************************************************************************)
(* Claims about the variations.                                            *)
(***************************************************************************)
C13_Pass ==
    (apPc = "varying" /\ vpos' = vpos + 1
     /\ self.variations[vpos + 1] # "Linear") =>
        vr * vr = vx * vx + vy * vy

\* C13: the radius r that the k-th variation of the list uses is the
\* radius sqrt(x^2 + y^2) of the point it is applied to, the output of the
\* variation before it, for every k.
C13_CurrentRadius == [][C13_Pass]_vars

(***************************************************************************)
(* Claims about the scheduling of the rayon create_histogram.              *)
(***************************************************************************)
\* the result when the whole input is one slice
OneSlice ==
    IF pixel_points = <<>> THEN EmptyMap
    ELSE ReduceOp(EmptyMap, FoldSlice(EmptyMap, pixel_points, transforms))

\* C14: for a fixed input the rayon create_histogram returns one and the
\* same histogram, keys, hits and colours, however the input is cut into
\* contiguous slices and in whatever order the partial histograms are
\* reduced: the one it returns when the input is a single slice.
C14_SchedulingIndependent ==
    (variant = "mpi" /\ histPc = "returned") => histogram = OneSlice

(***************************************************************************)
(* Claims about the raster.                                                *)
(***************************************************************************)
NonDegenerate ==
    /\ orbit # <<>>
    /\ extrema.max_x > extrema.min_x
    /\ extrema.max_y > extrema.min_y

\* C15: for an orbit that extends on both axes, every pixel returned by
\* transform_to_pixels lies inside the raster, 0 <= pixel_x < width and
\* 0 <= pixel_y < height, a point of maximal y lies in row 0, and the
\* output has the length, the order and the transform indices of the input.
C15_InsideRaster ==
    (pixPc = "returned" /\ NonDegenerate) =>
        /\ Len(pixel_points) = Len(orbit)
        /\ \A k \in 1..Len(orbit) :
              /\ pixel_points[k].index = orbit[k].index
              /\ pixel_points[k].px[1] >= 0
              /\ pixel_points[k].px[1] < width
              /\ pixel_points[k].px[2] >= 0
              /\ pixel_points[k].px[2] < height
              /\ orbit[k].pt[2] = extrema.max_y => pixel_points[k].px[2] = 0

(***************************************************************************)
(* Claims about the partition of the iterations among the processes.       *)
(***************************************************************************)
\* the iterations [q * floor(N/size), (q + 1) * floor(N/size)) of rank q
Share(q) ==
    { k \in 0..iterations :
        /\ q * (iterations \div size) <= k
        /\ k < (q + 1) * (iterations \div size) }

\* the loop is entered at the first iteration of the share and every pass
\* executes the next iteration of the share
C16_Pass ==
    variant = "mpi" =>
        /\ (pc = "drawn" /\ pc' = "looping") =>
               i' = rank * (iterations \div size)
        /\ (pc = "looping" /\ i' # i) => (i \in Share(rank) /\ i' = i + 1)
        /\ (pc = "looping" /\ pc' = "returned") =>
               i = (rank + 1) * (iterations \div size)

\* the shares of the group
C16_Shares ==
    variant = "mpi" =>
        /\ \A q \in 0..(size - 1) :
              Cardinality(Share(q)) = iterations \div size
        /\ \A p, q \in 0..(size - 1) : p # q => Share(p) \cap Share(q) = {}
        /\ UNION { Share(q) : q \in 0..(size - 1) }
               = 0..(size * (iterations \div size) - 1)
        /\ size * (iterations \div size) = iterations - (iterations % size)
        /\ (size * (iterations \div size) = iterations)
               <=> (iterations % size = 0)

\* C16: in the distributed sampler the process of rank r executes exactly
\* the iterations [r * floor(N/size), (r + 1) * floor(N/size)); these
\* shares are pairwise disjoint, each has floor(N/size) iterations, their
\* union is [0, size * floor(N/size)), and so the group executes N
\* iterations when size divides N and N mod size fewer otherwise.
C16_WorkPartition == [][C16_Pass]_vars /\ []C16_Shares

\* the last rank has returned and iterations past its share are left over
C16_Witness ==
    /\ variant = "mpi"
    /\ pc = "returned"
    /\ size > 1
    /\ rank = size - 1
    /\ iterations % size # 0
    /\ i = size * (iterations \div size)
    /\ i < iterations
    /\ points # <<>>

====
